---- MODULE Spec2Model ----
(***************************************************************************)
(* Model of gto::basic_cstring<char> (src/cstring.hpp): an immutable,      *)
(* reference-counted string handle.  A handle is one pointer m_str to the  *)
(* character data of a block {counter, length, data, NUL}; the empty       *)
(* string is the static block m_empty, whose counter is the constant 0.    *)
(***************************************************************************)
EXTENDS Integers, Sequences, FiniteSets, TLC

\* ---------------------------------------------------------------- bounds
MaxHandles == 3      \* handle objects the program may hold at once
MaxBlocks  == 2      \* heap addresses the allocator can hand out
MaxLen     == 2      \* longest string that is constructed
MaxChar    == 1      \* character units are 0..MaxChar
MaxThreads == 2      \* threads of the concurrent specification
QMaxLen    == 3      \* longest string a query is applied to
QArgLen    == 2      \* longest string given to a query as its argument
QMaxChar   == 2      \* character units of queried strings are 0..QMaxChar
PrefixBits == 8      \* modelled width of prefix_type (std::uint32_t has 32
                     \* bits; TLC's integers stop short of 2^32, and a
                     \* string of every accepted length is constructed)

\* ---------------------------------------------------- program constants
nullptr        == 0              \* the null pointer (default of m_str)
m_empty_str    == 1              \* address of m_empty.str
NUL            == 0              \* value_type()
sizeof_prefix  == 4              \* sizeof(prefix_type), std::uint32_t
sizeof_value   == 1              \* sizeof(value_type), char
prefix_mod     == 2 ^ PrefixBits \* prefix_type arithmetic is modulo 2^w
prefix_max     == prefix_mod - 1 \* numeric_limits<prefix_type>::max()
max_size       == prefix_max - 1 \* max_size()

Handles  == 1..MaxHandles
Blocks   == 2..(MaxBlocks + 1)           \* heap addresses (data pointers)
Chars    == 0..MaxChar

\* Sequences over S of length lo..hi.
SeqsOf(S, lo, hi) == UNION {[1..n -> S] : n \in lo..hi}

\* Caller buffers: the units readable at the pointer handed to a constructor.
Buffers == SeqsOf(Chars, 0, MaxLen + 1)

\* The static empty block (counter 0, length 0, two value-initialised units).
m_empty == [units |-> 0, counter |-> 0, len |-> 0, str |-> <<NUL, NUL>>]

\* Heap memory that is not allocated: content is indeterminate, never read.
FreeBlock == [units |-> 0, counter |-> 0, len |-> 0, str |-> <<>>]

VARIABLES
    m_str,   \* m_str[h]: the pointer held by handle h (nullptr: no object)
    live,    \* the handles that are constructed objects
    mem,     \* mem[p]: the block whose data region is at address p
    fault,   \* "none", or the undefined behaviour the program ran into
    last,    \* the last operation performed, with its arguments
    owner,   \* owner[h]: the thread that owns handle h (0: nobody yet)
    thr      \* thr[t]: where thread t stands inside release / increment

vars == <<m_str, live, mem, fault, last, owner, thr>>

Threads == 1..MaxThreads
Idle    == [pc |-> "idle", h |-> 0, counts |-> 0]

\* The machine state the static helpers read and write.
Machine == [mem |-> mem, fault |-> "none"]

IsAllocated(M, p) == p \in Blocks /\ M.mem[p].units > 0
IsValid(M, p)     == p = m_empty_str \/ IsAllocated(M, p)
Fault(M, f)       == IF M.fault = "none" THEN [M EXCEPT !.fault = f] ELSE M

\* get_ptr_to_counter(str)[0].load(): the counter of the block at str.
load_counter(M, str) == M.mem[str].counter

\* size_type is twice as wide as prefix_type (size_t of 64 bits, uint32_t).
size_mod == 2 ^ (2 * PrefixBits)

\* A block size that leaves out the unit of the terminator.
allocated_units_no_nul(w, len) ==
    (2 + ((len * w) % size_mod) \div sizeof_prefix) % size_mod

\* 3 + (len * sizeof(value_type)) / sizeof(prefix_type) in size_type, for a
\* value_type of w bytes.
allocated_units(w, len) ==
    (3 + ((len * w) % size_mod) \div sizeof_prefix) % size_mod

\* get_allocated_length(len): prefix_type units for counter+length+data+NUL.
get_allocated_length(len) == allocated_units(sizeof_value, len)

\* Units of value_type that fit the data region of an n-unit allocation.
data_capacity(n) == ((n - 2) * sizeof_prefix) \div sizeof_value

\* deallocate(str): return the block to the allocator.
deallocate(M, str) ==
    IF str = nullptr THEN Fault(M, "null_deref")
    ELSE IF str = m_empty_str THEN Fault(M, "free_static")
    ELSE IF ~IsAllocated(M, str) THEN Fault(M, "double_free")
    ELSE IF get_allocated_length(M.mem[str].len) # M.mem[str].units
         THEN Fault(M, "bad_free_size")
    ELSE [M EXCEPT !.mem[str] = FreeBlock]

\* A decrement that also clears the stored length of the block.
fetch_sub_wipe(M, str) ==
    IF str = m_empty_str THEN Fault(M, "write_static")
    ELSE IF ~IsAllocated(M, str) THEN Fault(M, "use_after_free")
    ELSE [M EXCEPT !.mem[str].counter = (@ - 1) % prefix_mod,
                   !.mem[str].len = 0]

\* fetch_sub(1) / fetch_add(1) on the counter; a store to m_empty is a
\* store to a constexpr object.
fetch_sub(M, str) ==
    IF str = m_empty_str THEN Fault(M, "write_static")
    ELSE IF ~IsAllocated(M, str) THEN Fault(M, "use_after_free")
    ELSE [M EXCEPT !.mem[str].counter = (@ - 1) % prefix_mod]

fetch_add(M, str) ==
    IF str = m_empty_str THEN Fault(M, "write_static")
    ELSE IF ~IsAllocated(M, str) THEN Fault(M, "use_after_free")
    ELSE [M EXCEPT !.mem[str].counter = (@ + 1) % prefix_mod]

\* A release that keeps the value it loaded and drops fetch_sub's result.
release_counts_stale(loaded, found) == loaded

\* counts = ptr[0].fetch_sub(1): the value the fetch_sub found replaces the
\* value loaded before it.
release_counts(loaded, found) == found

\* A release that decrements but never gives the block back.
release_no_free(M, str) ==
    IF M.fault # "none" \/ ~IsValid(M, str) THEN M
    ELSE IF load_counter(M, str) <= 1 THEN M
    ELSE fetch_sub(M, str)

\* release(str): decrement the counter, deallocate on the last reference.
release(M, str) ==
    IF M.fault # "none" THEN M
    ELSE IF str = nullptr THEN Fault(M, "null_deref")
    ELSE IF ~IsValid(M, str) THEN Fault(M, "use_after_free")
    ELSE LET counts0 == load_counter(M, str) IN
         IF counts0 = 0 THEN M
         ELSE LET M1     == IF counts0 > 1 THEN fetch_sub(M, str) ELSE M
                  counts == IF counts0 > 1
                            THEN release_counts(counts0, load_counter(M, str))
                            ELSE counts0
              IN IF counts = 1 THEN deallocate(M1, str) ELSE M1

\* A copy that leaves the counter alone.
increment_ref_counter_none(M, str) == M

\* increment_ref_counter(str): one more reference, except for constants.
increment_ref_counter(M, str) ==
    IF M.fault # "none" THEN M
    ELSE IF str = nullptr THEN Fault(M, "null_deref")
    ELSE IF ~IsValid(M, str) THEN Fault(M, "use_after_free")
    ELSE IF load_counter(M, str) > 0 THEN fetch_add(M, str) ELSE M

\* traits_type::length(str): units before the first NUL of the buffer.
traits_length(buf) ==
    (CHOOSE i \in 1..Len(buf) :
        buf[i] = NUL /\ \A j \in 1..(i - 1) : buf[j] # NUL) - 1

HasNUL(buf) == \E i \in 1..Len(buf) : buf[i] = NUL

\* A copy that stops at the first NUL of the input and pads with NUL.
new_block_strncpy(n, buf, len) ==
    [units   |-> n,
     counter |-> 1,
     len     |-> len % prefix_mod,
     str     |-> [i \in 1..len |->
                    IF \E j \in 1..i : buf[j] = NUL THEN NUL ELSE buf[i]]
                 \o <<NUL>>]

\* The block written by basic_cstring(str, len) into an n-unit allocation:
\* counter 1, the length, len units of str, one NUL.
new_block(n, buf, len) ==
    [units   |-> n,
     counter |-> 1,
     len     |-> len % prefix_mod,
     str     |-> SubSeq(buf, 1, len) \o <<NUL>>]

\* The record of an operation: its name and arguments, the pointer its
\* first handle held before it, and the blocks it allocated and freed.
Op(name, a, b) ==
    [op |-> name, a |-> a, b |-> b, null |-> FALSE, buf |-> <<>>, len |-> 0,
     threw |-> FALSE,
     old   |-> IF a \in Handles THEN m_str[a] ELSE nullptr,
     alloc |-> {p \in Blocks : mem[p].units = 0 /\ mem'[p].units > 0},
     freed |-> {p \in Blocks : mem[p].units > 0 /\ mem'[p].units = 0}]

CtorOp(name, h, isnull, buf, len, threw) ==
    [Op(name, h, 0) EXCEPT !.null = isnull, !.buf = buf, !.len = len,
                           !.threw = threw]

NoOp ==
    [op |-> "init", a |-> 0, b |-> 0, null |-> FALSE, buf |-> <<>>, len |-> 0,
     threw |-> FALSE, old |-> nullptr, alloc |-> {}, freed |-> {}]

\* An empty test that forgets the length.
is_empty_input_null_only(isnull, len) == isnull

\* str == nullptr || len == 0
is_empty_input(isnull, len) == isnull \/ len = 0

\* A constructor that accepts every length.
length_error_never(len) == FALSE

\* len > max_size(): the constructor throws std::length_error.
length_error(len) == len > max_size

\* basic_cstring(const_pointer str, size_type len)
basic_cstring(name, h, isnull, buf, len) ==
    /\ fault = "none"
    /\ h \notin live
    /\ IF length_error(len)
       THEN \* throw std::length_error: no object is constructed
            /\ UNCHANGED <<m_str, live, mem, fault, owner, thr>>
       ELSE /\ live' = live \cup {h}
            /\ UNCHANGED <<owner, thr>>
            /\ IF is_empty_input(isnull, len)
               THEN /\ m_str' = [m_str EXCEPT ![h] = m_empty_str]
                    /\ UNCHANGED <<mem, fault>>
               ELSE LET n == get_allocated_length(len) IN
                    \E ptr \in Blocks :
                       /\ ~IsAllocated(Machine, ptr)
                       /\ mem' = [mem EXCEPT ![ptr] = new_block(n, buf, len)]
                       /\ m_str' = [m_str EXCEPT ![h] = ptr]
                       /\ fault' = IF len + 1 > data_capacity(n)
                                   THEN "overflow" ELSE fault
    /\ last' = CtorOp(name, h, isnull, buf, len, length_error(len))

\* Lengths a caller may pass with a buffer: what is readable, or too much.
LenArgs(buf) == (0..Len(buf)) \cup {max_size + 1}
NullLenArgs  == (0..MaxLen) \cup {max_size, max_size + 1}

ConstructLen(h) ==
    \/ \E buf \in Buffers : \E len \in LenArgs(buf) :
          /\ len <= MaxLen \/ len > max_size
          /\ basic_cstring("construct_len", h, FALSE, buf, len)
    \/ \E len \in NullLenArgs :
          basic_cstring("construct_len", h, TRUE, <<>>, len)

\* basic_cstring(const_pointer str): length up to the first NUL, 0 if null.
ConstructCStr(h) ==
    \/ \E buf \in Buffers :
          /\ HasNUL(buf)
          /\ basic_cstring("construct_cstr", h, FALSE, buf, traits_length(buf))
    \/ basic_cstring("construct_cstr", h, TRUE, <<>>, 0)

\* basic_cstring(): basic_cstring(nullptr)
ConstructDefault(h) == basic_cstring("construct_default", h, TRUE, <<>>, 0)

\* ~basic_cstring(): release(m_str)
Destroy(h) ==
    /\ fault = "none"
    /\ h \in live
    /\ LET M == release(Machine, m_str[h]) IN
         /\ mem' = M.mem
         /\ fault' = M.fault
    /\ live' = live \ {h}
    /\ m_str' = [m_str EXCEPT ![h] = nullptr]
    /\ UNCHANGED <<owner, thr>>
    /\ last' = Op("destroy", h, 0)

\* basic_cstring(const basic_cstring &other)
CopyConstruct(h, other) ==
    /\ fault = "none"
    /\ h \notin live
    /\ other \in live
    /\ LET M == increment_ref_counter(Machine, m_str[other]) IN
         /\ mem' = M.mem
         /\ fault' = M.fault
    /\ m_str' = [m_str EXCEPT ![h] = m_str[other]]
    /\ live' = live \cup {h}
    /\ UNCHANGED <<owner, thr>>
    /\ last' = Op("copy_construct", h, other)

\* A move that leaves the source with a null pointer.
MoveConstruct_null(h, other) ==
    /\ fault = "none"
    /\ h \notin live
    /\ other \in live
    /\ m_str' = [m_str EXCEPT ![h] = m_str[other], ![other] = nullptr]
    /\ live' = live \cup {h}
    /\ UNCHANGED <<mem, fault, owner, thr>>
    /\ last' = Op("move_construct", h, other)

\* A move that takes a reference of its own, as a copy does.
MoveConstruct_counted(h, other) ==
    /\ fault = "none"
    /\ h \notin live
    /\ other \in live
    /\ LET M == increment_ref_counter(Machine, m_str[other]) IN
         /\ mem' = M.mem
         /\ fault' = M.fault
    /\ m_str' = [m_str EXCEPT ![h] = m_str[other], ![other] = m_empty_str]
    /\ live' = live \cup {h}
    /\ UNCHANGED <<owner, thr>>
    /\ last' = Op("move_construct", h, other)

\* basic_cstring(basic_cstring &&other): std::exchange(other.m_str, m_empty.str)
MoveConstruct(h, other) ==
    /\ fault = "none"
    /\ h \notin live
    /\ other \in live
    /\ m_str' = [m_str EXCEPT ![h] = m_str[other], ![other] = m_empty_str]
    /\ live' = live \cup {h}
    /\ UNCHANGED <<mem, fault, owner, thr>>
    /\ last' = Op("move_construct", h, other)

\* An assignment that never notices that both handles share the target.
same_target_never(h, other) == FALSE

\* m_str == other.m_str
same_target(h, other) == m_str[h] = m_str[other]

\* An assignment that binds the new block and forgets the old one.
rebind_no_release(M, old, new) == increment_ref_counter(M, new)

\* release(m_str); m_str = other.m_str; increment_ref_counter(m_str)
rebind(M, old, new) == increment_ref_counter(release(M, old), new)

\* operator=(const basic_cstring &other)
CopyAssign(h, other) ==
    /\ fault = "none"
    /\ h \in live
    /\ other \in live
    /\ UNCHANGED <<live, owner, thr>>
    /\ IF same_target(h, other)
       THEN UNCHANGED <<m_str, mem, fault>>
       ELSE LET M == rebind(Machine, m_str[h], m_str[other])
            IN /\ m_str' = [m_str EXCEPT ![h] = m_str[other]]
               /\ mem' = M.mem
               /\ fault' = M.fault
    /\ last' = Op("copy_assign", h, other)

\* An exchange that loses the pointer the first handle held.
swap_m_str_steal(h, other) ==
    [m_str EXCEPT ![h] = m_str[other]]

\* std::swap(m_str, other.m_str)
swap_m_str(h, other) ==
    [m_str EXCEPT ![h] = m_str[other], ![other] = m_str[h]]

\* A move assignment that releases its own block, takes the block of the
\* source and leaves the source bound to the empty string.
MoveAssign_source_empty(h, other) ==
    /\ fault = "none"
    /\ h \in live
    /\ other \in live
    /\ UNCHANGED <<live, owner, thr>>
    /\ IF h = other
       THEN UNCHANGED <<m_str, mem, fault>>
       ELSE LET M == release(Machine, m_str[h])
            IN /\ m_str' = [m_str EXCEPT ![h] = m_str[other],
                                         ![other] = m_empty_str]
               /\ mem' = M.mem
               /\ fault' = M.fault
    /\ last' = Op("move_assign", h, other)

\* operator=(basic_cstring &&other)
MoveAssign(h, other) ==
    /\ fault = "none"
    /\ h \in live
    /\ other \in live
    /\ m_str' = swap_m_str(h, other)
    /\ UNCHANGED <<live, mem, fault, owner, thr>>
    /\ last' = Op("move_assign", h, other)

\* void swap(basic_cstring &other)
Swap(h, other) ==
    /\ fault = "none"
    /\ h \in live
    /\ other \in live
    /\ m_str' = swap_m_str(h, other)
    /\ UNCHANGED <<live, mem, fault, owner, thr>>
    /\ last' = Op("swap", h, other)

\* swap(lhs, rhs): lhs.swap(rhs)
FreeSwap(lhs, rhs) ==
    /\ fault = "none"
    /\ lhs \in live
    /\ rhs \in live
    /\ m_str' = swap_m_str(lhs, rhs)
    /\ UNCHANGED <<live, mem, fault, owner, thr>>
    /\ last' = Op("free_swap", lhs, rhs)

\* ------------------------------------------------------------ queries
\* use_count(): the counter of the bound block.
use_count(h) == load_counter(Machine, m_str[h])

\* length() / size(): *get_ptr_to_length(m_str).
length(h) == mem[m_str[h]].len

\* data() / c_str(): the pointer itself.
data(h) == m_str[h]

\* The units readable at data(), the terminator included.
c_str(h) == mem[m_str[h]].str

\* std::string::c_str() of the std::string that holds the units of handle
\* other: a buffer of those units and a NUL, as other's own c_str() is.
c_str_of(other) == m_str[other]

\* view(): basic_cstring_view(m_str, length()).
view(h) == SubSeq(mem[m_str[h]].str, 1, length(h))

Init ==
    /\ m_str = [h \in Handles |-> nullptr]
    /\ live = {}
    /\ mem = [p \in {m_empty_str} \cup Blocks |->
                IF p = m_empty_str THEN m_empty ELSE FreeBlock]
    /\ fault = "none"
    /\ last = NoOp
    /\ owner = [h \in Handles |-> 0]
    /\ thr = [t \in Threads |-> Idle]

Next ==
    \/ \E h \in Handles : ConstructDefault(h)
    \/ \E h \in Handles : ConstructCStr(h)
    \/ \E h \in Handles : ConstructLen(h)
    \/ \E h \in Handles : Destroy(h)
    \/ \E h, other \in Handles : CopyConstruct(h, other)
    \/ \E h, other \in Handles : MoveConstruct(h, other)
    \/ \E h, other \in Handles : CopyAssign(h, other)
    \/ \E h, other \in Handles : MoveAssign(h, other)
    \/ \E h, other \in Handles : Swap(h, other)
    \/ \E lhs, rhs \in Handles : FreeSwap(lhs, rhs)

Spec == Init /\ [][Next]_vars

(***************************************************************************)
(* Specification of the length check: one handle at a time is constructed  *)
(* from a buffer of every length from 0 to beyond max_size(), and          *)
(* destroyed again.                                                        *)
(***************************************************************************)

\* A caller buffer of n units, each of them c.
Fill(c, n) == [i \in 1..n |-> c]

\* Every length from 0 to the first one that no longer fits prefix_type.
LongLens == 0..(max_size + 2)

\* basic_cstring(str, len) with a buffer that has len readable units.
ConstructLong(h) ==
    /\ live = {}
    /\ \E len \in LongLens : \E c \in Chars : \E isnull \in BOOLEAN :
          basic_cstring("construct_len", h, isnull,
                        IF isnull THEN <<>> ELSE Fill(c, len), len)

NextLen ==
    \/ \E h \in Handles : ConstructLong(h)
    \/ \E h \in Handles : Destroy(h)

SpecLen == Init /\ [][NextLen]_vars

(***************************************************************************)
(* Queries.  The specifications of the queries start from two constructed  *)
(* handles: handle 1 holds the string that is queried, handle 2 the string *)
(* that is given as the argument, either built from its own buffer or as a *)
(* copy of handle 1.  A behaviour performs one query; the queries are      *)
(* const members and change nothing they read.                             *)
(***************************************************************************)

\* npos: size_type's largest value (the largest integer TLC represents).
npos == 2147483647

QChars     == 0..QMaxChar
QStrings(n) == SeqsOf(QChars, 0, n)

Min(x, y) == IF x <= y THEN x ELSE y
Range(w)  == {w[i] : i \in 1..Len(w)}

\* The handle a move has just taken from.
MovedFrom == IF last.op \in {"move_construct", "move_assign"} THEN last.b ELSE 0

\* The block basic_cstring(s, Len(s)) binds a handle to, at address ptr.
bound_block(s, ptr) == IF s = <<>> THEN m_empty_str ELSE ptr

InitQ ==
    \E s1 \in QStrings(QMaxLen) : \E s2 \in QStrings(QArgLen) :
    \E shared \in BOOLEAN :
       LET p1 == bound_block(s1, 2)
           p2 == IF shared THEN p1 ELSE bound_block(s2, 3)
           b1 == new_block(get_allocated_length(Len(s1)), s1, Len(s1))
           b2 == new_block(get_allocated_length(Len(s2)), s2, Len(s2))
       IN /\ shared => s2 = <<>>
          /\ m_str = [h \in Handles |->
                        IF h = 1 THEN p1 ELSE IF h = 2 THEN p2 ELSE nullptr]
          /\ live = {1, 2}
          /\ mem = [p \in {m_empty_str} \cup Blocks |->
                      IF p = m_empty_str THEN m_empty
                      ELSE IF p = 2 /\ p1 = 2
                      THEN [b1 EXCEPT !.counter = IF shared THEN 2 ELSE 1]
                      ELSE IF p = 3 /\ p2 = 3 THEN b2
                      ELSE FreeBlock]
          /\ fault = "none"
          /\ last = NoOp
          /\ owner = [h \in Handles |-> 0]
          /\ thr = [t \in Threads |-> Idle]

\* A query may be made of handle h: of a handle of the initial state, or of
\* the handle a move has just taken from.
QReady(h) ==
    /\ fault = "none"
    /\ h \in live
    /\ last.op = "init" \/ h = MovedFrom

\* The record of a query: its name, handle and arguments, its result, and
\* whether it threw (threw) or ended the program (abort).
QOp(name, h, args, res, threw) ==
    [op |-> name, a |-> h, b |-> 0, args |-> args, res |-> res,
     threw |-> threw, abort |-> FALSE, moved |-> h = MovedFrom]

\* A query reads, and writes nothing; reading past the units of a block is
\* undefined.
Reads(overread) ==
    /\ fault' = IF overread THEN "out_of_bounds_read" ELSE fault
    /\ UNCHANGED <<m_str, live, mem, owner, thr>>

\* The units a pointer gives access to.
region(p) == mem[p].str

\* p[pos]: the unit at offset pos of pointer p; pad is what a read past the
\* block's units finds.
unit_at(p, pos, pad) ==
    IF pos < Len(region(p)) THEN region(p)[pos + 1] ELSE pad

\* Positions and lengths handed to the queries.
QPos == (0..(QMaxLen + 1)) \cup {npos}
QLen == (0..QMaxLen) \cup {npos}

\* An at() that refuses the position of the terminator.
at_out_of_range_strict(pos, len) == pos >= len

\* pos > length()
at_out_of_range(pos, len) == pos > len

\* at(pos): pos > length() ? throw std::out_of_range : m_str[pos]
At(h) ==
    /\ QReady(h)
    /\ Reads(FALSE)
    /\ \E pos \in QPos :
          last' = IF at_out_of_range(pos, length(h))
                  THEN QOp("at", h, [pos |-> pos], NUL, TRUE)
                  ELSE QOp("at", h, [pos |-> pos],
                           unit_at(m_str[h], pos, NUL), FALSE)

\* operator[](pos): m_str[pos], unchecked
Subscript(h) ==
    /\ QReady(h)
    /\ \E pos \in QPos : \E pad \in QChars :
          /\ pos < Len(region(m_str[h])) => pad = NUL
          /\ Reads(pos >= Len(region(m_str[h])))
          /\ last' = QOp("subscript", h, [pos |-> pos],
                         unit_at(m_str[h], pos, pad), FALSE)

\* empty(): length() == 0
empty(h) == length(h) = 0

\* A back() that reads the unit after the last one.
back_index_end(len) == len

\* length() - 1
back_index(len) == len - 1

\* back(): empty() ? throw std::out_of_range : m_str[length()-1]
Back(h) ==
    /\ QReady(h)
    /\ Reads(FALSE)
    /\ last' = IF empty(h)
               THEN QOp("back", h, [pos |-> 0], NUL, TRUE)
               ELSE QOp("back", h, [pos |-> 0],
                        unit_at(m_str[h], back_index(length(h)), NUL), FALSE)

\* front(): empty() ? throw std::out_of_range : m_str[0]
Front(h) ==
    /\ QReady(h)
    /\ Reads(FALSE)
    /\ last' = IF empty(h)
               THEN QOp("front", h, [pos |-> 0], NUL, TRUE)
               ELSE QOp("front", h, [pos |-> 0], unit_at(m_str[h], 0, NUL),
                        FALSE)

\* A substr that has no room for the empty substring at the end.
sv_substr_throws_at_end(v, pos) == pos >= Len(v)

\* std::basic_string_view::substr: pos > size() throws std::out_of_range
sv_substr_throws(v, pos) == pos > Len(v)

\* std::basic_string_view::substr: the view of min(n, size() - pos) units
\* that starts at pos.
sv_substr(v, pos, n) == SubSeq(v, pos + 1, pos + Min(n, Len(v) - pos))

\* substr(pos, len): view().substr(pos, len)
Substr(h) ==
    /\ QReady(h)
    /\ Reads(FALSE)
    /\ \E pos \in QPos : \E len \in QLen :
          last' = IF sv_substr_throws(view(h), pos)
                  THEN QOp("substr", h, [pos |-> pos, len |-> len], <<>>, TRUE)
                  ELSE QOp("substr", h, [pos |-> pos, len |-> len],
                           sv_substr(view(h), pos, len), FALSE)

\* A move, made before the query of the handle it took from.
QMove(h, other) ==
    /\ last.op = "init"
    /\ MoveAssign(h, other) \/ MoveConstruct(h, other)

NextAccess ==
    \/ \E h, other \in Handles : QMove(h, other)
    \/ \E h \in Handles : At(h)
    \/ \E h \in Handles : Subscript(h)
    \/ \E h \in Handles : Back(h)
    \/ \E h \in Handles : Front(h)
    \/ \E h \in Handles : Substr(h)

SpecAccess == InitQ /\ [][NextAccess]_vars

(***************************************************************************)
(* Comparison, prefix, suffix, containment, equality and hash.  The        *)
(* argument is handle 2 (other), or what its data() pointer gives access   *)
(* to: a view (pointer and length), a NUL-terminated buffer, a buffer with *)
(* an explicit length; or the null pointer.                                *)
(***************************************************************************)

\* What a call comes to: a returned value, a thrown exception, or
\* std::terminate (an exception that leaves a noexcept function); over
\* tells that units past the end of a block were read.
Ret(v, overread) ==
    [res |-> v, threw |-> FALSE, abort |-> FALSE, over |-> overread]
Thrown(v)  == [res |-> v, threw |-> TRUE, abort |-> FALSE, over |-> FALSE]
\* The exception of a call made inside a noexcept function.
noexcept(r) == IF r.threw THEN [r EXCEPT !.threw = FALSE, !.abort = TRUE]
               ELSE r

\* A query of handle h with the handle other as its argument.
QPair(h, other) == QReady(h) /\ other \in live /\ h < other

\* The pointers handed to a const_pointer parameter.
PtrArgs(other) == {nullptr, data(other)}

\* A query step that comes to r.
Query(name, h, args, r) ==
    /\ Reads(r.over)
    /\ last' = [QOp(name, h, args, r.res, r.threw) EXCEPT !.abort = r.abort]

\* One value for what is read past the end of a block, when nothing is.
OnePad(pad, r) == r.over \/ pad = NUL

\* sanitize(str): (str == nullptr || str[0] == value_type()) ? m_empty.str : str
sanitize(str) ==
    IF str = nullptr \/ region(str)[1] = NUL THEN m_empty_str ELSE str

\* basic_cstring_view(str, n) needs n units at str: a view that reaches past
\* the units of the block is undefined.
out_of_region(str, n) == n > Len(region(str))

\* basic_cstring_view(str, n): the n units at str.
view_of(str, n, pad) == [i \in 1..n |-> unit_at(str, i - 1, pad)]

\* basic_cstring_view(str): the units at str up to the first NUL.
cstr_view(str) == SubSeq(region(str), 1, traits_length(region(str)))

\* traits_type::compare(v, w, n), from unit i on: the sign of the first
\* difference.
RECURSIVE traits_compare(_, _, _, _)
traits_compare(v, w, i, n) ==
    IF i > n THEN 0
    ELSE IF v[i] < w[i] THEN -1
    ELSE IF v[i] > w[i] THEN 1
    ELSE traits_compare(v, w, i + 1, n)

\* A comparison that stops at the first NUL, as strcmp does.
sv_compare_strcmp(v, w) ==
    LET cut(x) == IF HasNUL(x) THEN SubSeq(x, 1, traits_length(x)) ELSE x
        a == cut(v)
        b == cut(w)
        r == traits_compare(a, b, 1, Min(Len(a), Len(b)))
    IN IF r # 0 THEN r
       ELSE IF Len(a) < Len(b) THEN -1 ELSE IF Len(a) > Len(b) THEN 1 ELSE 0

\* std::basic_string_view::compare: the sign of the comparison of the
\* common length, then of the lengths.
sv_compare(v, w) ==
    LET r == traits_compare(v, w, 1, Min(Len(v), Len(w)))
    IN IF r # 0 THEN r
       ELSE IF Len(v) < Len(w) THEN -1 ELSE IF Len(v) > Len(w) THEN 1 ELSE 0

\* compare(other): view().compare(other.view())
compare(h, other) == Ret(sv_compare(view(h), view(other)), FALSE)

\* compare(pos, len, other) noexcept: substr(pos, len).compare(other.view())
compare_pos(h, pos, len, other) ==
    noexcept(IF sv_substr_throws(view(h), pos) THEN Thrown(0)
             ELSE Ret(sv_compare(sv_substr(view(h), pos, len), view(other)),
                      FALSE))

\* compare(pos1, len1, other, pos2, len2):
\* substr(pos1, len1).compare(other.substr(pos2, len2))
compare_pos2(h, pos1, len1, other, pos2, len2) ==
    IF sv_substr_throws(view(h), pos1) \/ sv_substr_throws(view(other), pos2)
    THEN Thrown(0)
    ELSE Ret(sv_compare(sv_substr(view(h), pos1, len1),
                        sv_substr(view(other), pos2, len2)), FALSE)

\* compare(str): view().compare(sanitize(str))
compare_cstr(h, str) ==
    Ret(sv_compare(view(h), cstr_view(sanitize(str))), FALSE)

\* compare(pos, len, str): substr(pos, len).compare(sanitize(str))
compare_pos_cstr(h, pos, len, str) ==
    IF sv_substr_throws(view(h), pos) THEN Thrown(0)
    ELSE Ret(sv_compare(sv_substr(view(h), pos, len),
                        cstr_view(sanitize(str))), FALSE)

\* compare(pos, len, str, len2):
\* substr(pos, len).compare(basic_cstring_view(sanitize(str), len2))
compare_pos_buf(h, pos, len, str, len2, pad) ==
    IF sv_substr_throws(view(h), pos) THEN Thrown(0)
    ELSE LET v == sv_substr(view(h), pos, len)
         IN Ret(sv_compare(v, view_of(sanitize(str), len2, pad)),
                out_of_region(sanitize(str), len2))

\* compare(sv): view().compare(sv)
compare_view(h, sv) == Ret(sv_compare(view(h), sv), FALSE)

Compare(h, other) ==
    /\ QPair(h, other)
    /\ Query("compare", h, [b |-> other], compare(h, other))

ComparePos(h, other) ==
    /\ QPair(h, other)
    /\ \E pos \in QPos : \E len \in QLen :
          Query("compare_pos", h, [b |-> other, pos |-> pos, len |-> len],
                compare_pos(h, pos, len, other))

\* Positions and lengths of the argument's substring.
QPos2 == 0..(QArgLen + 1)
QLen2 == {1, npos}

ComparePos2(h, other) ==
    /\ QPair(h, other)
    /\ \E pos1 \in QPos : \E len1 \in QLen :
       \E pos2 \in QPos2 : \E len2 \in QLen2 :
          Query("compare_pos2", h,
                [b |-> other, pos |-> pos1, len |-> len1, pos2 |-> pos2,
                 len2 |-> len2],
                compare_pos2(h, pos1, len1, other, pos2, len2))

CompareCStr(h, other) ==
    /\ QPair(h, other)
    /\ \E str \in PtrArgs(other) :
          Query("compare_cstr", h, [b |-> other, str |-> str],
                compare_cstr(h, str))

ComparePosCStr(h, other) ==
    /\ QPair(h, other)
    /\ \E pos \in QPos : \E len \in QLen : \E str \in PtrArgs(other) :
          Query("compare_pos_cstr", h,
                [b |-> other, str |-> str, pos |-> pos, len |-> len],
                compare_pos_cstr(h, pos, len, str))

\* The lengths handed over with a pointer: up to what is readable at the
\* argument's data(), its terminator included.
BufLens(other) == 0..(length(other) + 1)

ComparePosBuf(h, other) ==
    /\ QPair(h, other)
    /\ \E pos \in QPos : \E len \in QLen :
       \E str \in PtrArgs(other) : \E len2 \in BufLens(other) :
       \E pad \in QChars :
          LET r == compare_pos_buf(h, pos, len, str, len2, pad) IN
          /\ OnePad(pad, r)
          /\ Query("compare_pos_buf", h,
                   [b |-> other, str |-> str, pos |-> pos, len |-> len,
                    len2 |-> len2], r)

CompareView(h, other) ==
    /\ QPair(h, other)
    /\ Query("compare_view", h, [b |-> other], compare_view(h, view(other)))

\* The result "== 0" of a comparison.
is_zero(r) == [r EXCEPT !.res = (r.res = 0)]

\* starts_with(other) noexcept: compare(0, other.length(), other) == 0
starts_with(h, other) ==
    noexcept(is_zero(compare_pos(h, 0, length(other), other)))

\* starts_with(sv) noexcept: compare(0, sv.length(), sv.data(), sv.length()) == 0
starts_with_view(h, sv_data, sv_length, pad) ==
    noexcept(is_zero(compare_pos_buf(h, 0, sv_length, sv_data, sv_length,
                                     pad)))

\* starts_with(str) noexcept: starts_with(basic_cstring_view(sanitize(str)))
starts_with_cstr(h, str, pad) ==
    noexcept(starts_with_view(h, sanitize(str), Len(cstr_view(sanitize(str))),
                              pad))

\* ends_with(other) noexcept:
\* len1 >= len2 && compare(len1-len2, len2, other) == 0
ends_with(h, other) ==
    LET len1 == length(h)
        len2 == length(other)
    IN IF len1 >= len2
       THEN noexcept(is_zero(compare_pos(h, len1 - len2, len2, other)))
       ELSE Ret(FALSE, FALSE)

\* ends_with(sv) noexcept:
\* len1 >= len2 && compare(len1-len2, len2, sv.data(), len2) == 0
ends_with_view(h, sv_data, sv_length, pad) ==
    LET len1 == length(h)
        len2 == sv_length
    IN IF len1 >= len2
       THEN noexcept(is_zero(compare_pos_buf(h, len1 - len2, len2, sv_data,
                                             len2, pad)))
       ELSE Ret(FALSE, FALSE)

\* ends_with(str) noexcept: ends_with(basic_cstring_view(sanitize(str)))
ends_with_cstr(h, str, pad) ==
    noexcept(ends_with_view(h, sanitize(str), Len(cstr_view(sanitize(str))),
                            pad))

StartsWith(h, other) ==
    /\ QPair(h, other)
    /\ Query("starts_with", h, [b |-> other, form |-> "handle"],
             starts_with(h, other))

StartsWithView(h, other) ==
    /\ QPair(h, other)
    /\ \E pad \in QChars :
          LET r == starts_with_view(h, data(other), length(other), pad) IN
          /\ OnePad(pad, r)
          /\ Query("starts_with", h, [b |-> other, form |-> "view"], r)

StartsWithCStr(h, other) ==
    /\ QPair(h, other)
    /\ \E str \in PtrArgs(other) : \E pad \in QChars :
          LET r == starts_with_cstr(h, str, pad) IN
          /\ OnePad(pad, r)
          /\ Query("starts_with", h,
                   [b |-> other,
                    form |-> IF str = nullptr THEN "null" ELSE "cstr"], r)

EndsWith(h, other) ==
    /\ QPair(h, other)
    /\ Query("ends_with", h, [b |-> other, form |-> "handle"],
             ends_with(h, other))

EndsWithView(h, other) ==
    /\ QPair(h, other)
    /\ \E pad \in QChars :
          LET r == ends_with_view(h, data(other), length(other), pad) IN
          /\ OnePad(pad, r)
          /\ Query("ends_with", h, [b |-> other, form |-> "view"], r)

EndsWithCStr(h, other) ==
    /\ QPair(h, other)
    /\ \E str \in PtrArgs(other) : \E pad \in QChars :
          LET r == ends_with_cstr(h, str, pad) IN
          /\ OnePad(pad, r)
          /\ Query("ends_with", h,
                   [b |-> other,
                    form |-> IF str = nullptr THEN "null" ELSE "cstr"], r)

\* operator==(lhs, rhs) noexcept: lhs.compare(rhs) == 0
operator_eq(lhs, rhs) == noexcept(is_zero(compare(lhs, rhs)))

Equal(h, other) ==
    /\ QPair(h, other)
    /\ Query("operator_eq", h, [b |-> other], operator_eq(h, other))

\* std::hash<std::string_view>: a function of the units of the view, the
\* same one that std::hash<std::string> is of the units of the string.
RECURSIVE std_hash(_, _)
std_hash(v, i) ==
    IF i = 0 THEN 5381 ELSE (std_hash(v, i - 1) * 33 + v[i]) % 65536

\* std::hash<gto::cstring>: std::hash<std::string_view>()(str.view())
hash(h) == std_hash(view(h), Len(view(h)))

Hash(h) ==
    /\ QReady(h)
    /\ Query("hash", h, [b |-> 0], Ret(hash(h), FALSE))

\* The six relational operators.
RelOps == {"==", "!=", "<", "<=", ">", ">="}

\* compare(...) rel 0
rel_zero(rel, c) ==
    CASE rel = "==" -> c = 0
      [] rel = "!=" -> c # 0
      [] rel = "<"  -> c < 0
      [] rel = "<=" -> c <= 0
      [] rel = ">"  -> c > 0
      [] rel = ">=" -> c >= 0

\* The test that the operators with the buffer on the left make of
\* rhs.compare(lhs): == and != as they are, the order relations reversed.
reversed(rel) ==
    CASE rel = "<"  -> ">"
      [] rel = "<=" -> ">="
      [] rel = ">"  -> "<"
      [] rel = ">=" -> "<="
      [] OTHER      -> rel

\* operator rel (const basic_cstring &lhs, const Char *rhs):
\* lhs.compare(rhs) rel 0
operator_cstring_ptr(rel, lhs, rhs) ==
    Ret(rel_zero(rel, compare_cstr(lhs, rhs).res), FALSE)

\* operator rel (const Char *lhs, const basic_cstring &rhs):
\* rhs.compare(lhs) against 0, with the reversed test
operator_ptr_cstring(rel, lhs, rhs) ==
    Ret(rel_zero(reversed(rel), compare_cstr(rhs, lhs).res), FALSE)

\* basic_cstring_compare()(lhs, rhs) with a handle on the left (side "lhs")
\* or on the right: for a buffer, lhs.compare(rhs) < 0 or rhs.compare(lhs) > 0;
\* for a std::string the same with its c_str(); for a string view the
\* comparison with the view.  The std::string and the view hold the units
\* of the handle other: c_str() gives a buffer with the units of other's.
basic_cstring_compare(side, h, form, other) ==
    LET c == CASE form = "cstr"   -> compare_cstr(h, data(other))
               [] form = "null"   -> compare_cstr(h, nullptr)
               [] form = "string" -> compare_cstr(h, c_str_of(other))
               [] form = "view"   -> compare_view(h, view(other))
    IN Ret(rel_zero(IF side = "lhs" THEN "<" ELSE ">", c.res), FALSE)

MixedOperator(h, other) ==
    /\ QPair(h, other)
    /\ \E rel \in RelOps : \E str \in PtrArgs(other) :
          \/ Query("operator", h,
                   [b |-> other, rel |-> rel, side |-> "lhs",
                    form |-> IF str = nullptr THEN "null" ELSE "cstr"],
                   operator_cstring_ptr(rel, h, str))
          \/ Query("operator", h,
                   [b |-> other, rel |-> rel, side |-> "rhs",
                    form |-> IF str = nullptr THEN "null" ELSE "cstr"],
                   operator_ptr_cstring(rel, str, h))

CompareForms == {"cstr", "null", "string", "view"}

Comparator(h, other) ==
    /\ QPair(h, other)
    /\ \E side \in {"lhs", "rhs"} : \E form \in CompareForms :
          Query("cstring_compare", h,
                [b |-> other, rel |-> "<", side |-> side, form |-> form],
                basic_cstring_compare(side, h, form, other))

NextCompare ==
    \/ \E h, other \in Handles : Compare(h, other)
    \/ \E h, other \in Handles : ComparePos(h, other)
    \/ \E h, other \in Handles : ComparePos2(h, other)
    \/ \E h, other \in Handles : CompareCStr(h, other)
    \/ \E h, other \in Handles : ComparePosCStr(h, other)
    \/ \E h, other \in Handles : ComparePosBuf(h, other)
    \/ \E h, other \in Handles : CompareView(h, other)
    \/ \E h, other \in Handles : StartsWith(h, other)
    \/ \E h, other \in Handles : StartsWithView(h, other)
    \/ \E h, other \in Handles : StartsWithCStr(h, other)
    \/ \E h, other \in Handles : EndsWith(h, other)
    \/ \E h, other \in Handles : EndsWithView(h, other)
    \/ \E h, other \in Handles : EndsWithCStr(h, other)
    \/ \E h, other \in Handles : Equal(h, other)
    \/ \E h, other \in Handles : MixedOperator(h, other)
    \/ \E h, other \in Handles : Comparator(h, other)
    \/ \E h \in Handles : Hash(h)

SpecCompare == InitQ /\ [][NextCompare]_vars

(***************************************************************************)
(* Searches.  The six families delegate to std::basic_string_view, which   *)
(* is modelled as the C++ standard defines it; the needle is handle 2, or  *)
(* what its data() pointer gives access to, or the null pointer, or one    *)
(* character.                                                              *)
(***************************************************************************)

\* The lowest position from i on at which w is found in v.
RECURSIVE find_up(_, _, _)
find_up(v, w, i) ==
    IF i + Len(w) > Len(v) THEN npos
    ELSE IF SubSeq(v, i + 1, i + Len(w)) = w THEN i
    ELSE find_up(v, w, i + 1)

\* The highest position from i down at which w is found in v.
RECURSIVE find_down(_, _, _)
find_down(v, w, i) ==
    IF SubSeq(v, i + 1, i + Len(w)) = w THEN i
    ELSE IF i = 0 THEN npos
    ELSE find_down(v, w, i - 1)

\* The lowest position from i on whose unit is in S (want) or is not.
RECURSIVE scan_up(_, _, _, _)
scan_up(v, S, want, i) ==
    IF i >= Len(v) THEN npos
    ELSE IF (v[i + 1] \in S) = want THEN i
    ELSE scan_up(v, S, want, i + 1)

\* The highest position from i down whose unit is in S (want) or is not.
RECURSIVE scan_down(_, _, _, _)
scan_down(v, S, want, i) ==
    IF (v[i + 1] \in S) = want THEN i
    ELSE IF i = 0 THEN npos
    ELSE scan_down(v, S, want, i - 1)

\* std::basic_string_view::find(w, pos)
sv_find(v, w, pos) == IF pos > Len(v) THEN npos ELSE find_up(v, w, pos)

\* std::basic_string_view::rfind(w, pos)
sv_rfind(v, w, pos) ==
    IF Len(w) > Len(v) THEN npos
    ELSE find_down(v, w, Min(Len(v) - Len(w), pos))

\* std::basic_string_view::find_first_of(w, pos)
sv_find_first_of(v, w, pos) == scan_up(v, Range(w), TRUE, pos)

\* std::basic_string_view::find_first_not_of(w, pos)
sv_find_first_not_of(v, w, pos) == scan_up(v, Range(w), FALSE, pos)

\* std::basic_string_view::find_last_of(w, pos)
sv_find_last_of(v, w, pos) ==
    IF Len(v) = 0 THEN npos
    ELSE scan_down(v, Range(w), TRUE, Min(Len(v) - 1, pos))

\* std::basic_string_view::find_last_not_of(w, pos)
sv_find_last_not_of(v, w, pos) ==
    IF Len(v) = 0 THEN npos
    ELSE scan_down(v, Range(w), FALSE, Min(Len(v) - 1, pos))

\* The member of std::basic_string_view that family fam calls.
sv_search(fam, v, w, pos) ==
    CASE fam = "find"              -> sv_find(v, w, pos)
      [] fam = "rfind"             -> sv_rfind(v, w, pos)
      [] fam = "find_first_of"     -> sv_find_first_of(v, w, pos)
      [] fam = "find_first_not_of" -> sv_find_first_not_of(v, w, pos)
      [] fam = "find_last_of"      -> sv_find_last_of(v, w, pos)
      [] fam = "find_last_not_of"  -> sv_find_last_not_of(v, w, pos)

\* fam(other, pos): view().fam(other.view(), pos)
search(fam, h, other, pos) ==
    Ret(sv_search(fam, view(h), view(other), pos), FALSE)

\* fam(str, pos, len): view().fam(sanitize(str), pos, len)
search_buf(fam, h, str, pos, len, pad) ==
    Ret(sv_search(fam, view(h), view_of(sanitize(str), len, pad), pos),
        out_of_region(sanitize(str), len))

\* fam(str, pos): view().fam(sanitize(str), pos)
search_cstr(fam, h, str, pos) ==
    Ret(sv_search(fam, view(h), cstr_view(sanitize(str)), pos), FALSE)

\* fam(c, pos): view().fam(c, pos)
search_char(fam, h, c, pos) ==
    Ret(sv_search(fam, view(h), <<c>>, pos), FALSE)

\* The four overloads of one family.
Search(fam, h, other) ==
    /\ QPair(h, other)
    /\ \E pos \in QPos :
          \/ Query(fam, h, [form |-> "handle", b |-> other, pos |-> pos],
                   search(fam, h, other, pos))
          \/ \E str \in PtrArgs(other) : \E len \in BufLens(other) :
             \E pad \in QChars :
                LET r == search_buf(fam, h, str, pos, len, pad) IN
                /\ OnePad(pad, r)
                /\ Query(fam, h,
                         [form |-> "buf", b |-> other, str |-> str,
                          pos |-> pos, len |-> len], r)
          \/ \E str \in PtrArgs(other) :
                Query(fam, h,
                      [form |-> "cstr", b |-> other, str |-> str,
                       pos |-> pos],
                      search_cstr(fam, h, str, pos))
          \/ \E c \in QChars :
                Query(fam, h, [form |-> "char", b |-> 0, c |-> c, pos |-> pos],
                      search_char(fam, h, c, pos))

Find(h, other)           == Search("find", h, other)
Rfind(h, other)          == Search("rfind", h, other)
FindFirstOf(h, other)    == Search("find_first_of", h, other)
FindFirstNotOf(h, other) == Search("find_first_not_of", h, other)
FindLastOf(h, other)     == Search("find_last_of", h, other)
FindLastNotOf(h, other)  == Search("find_last_not_of", h, other)

\* The result "!= npos" of a search.
is_found(r) == [r EXCEPT !.res = (r.res # npos)]

\* contains(sv), contains(c), contains(str):
\* view().find(sv) != npos, find(c) != npos, find(str) != npos
Contains(h, other) ==
    /\ QPair(h, other)
    /\ \/ Query("contains", h, [form |-> "view", b |-> other],
                noexcept(is_found(Ret(sv_find(view(h), view(other), 0),
                                      FALSE))))
       \/ \E c \in QChars :
             Query("contains", h, [form |-> "char", b |-> 0, c |-> c],
                   noexcept(is_found(search_char("find", h, c, 0))))
       \/ \E str \in PtrArgs(other) :
             Query("contains", h, [form |-> "cstr", b |-> other, str |-> str],
                   noexcept(is_found(search_cstr("find", h, str, 0))))

NextSearch ==
    \/ \E h, other \in Handles : Find(h, other)
    \/ \E h, other \in Handles : Rfind(h, other)
    \/ \E h, other \in Handles : FindFirstOf(h, other)
    \/ \E h, other \in Handles : FindFirstNotOf(h, other)
    \/ \E h, other \in Handles : FindLastOf(h, other)
    \/ \E h, other \in Handles : FindLastNotOf(h, other)
    \/ \E h, other \in Handles : Contains(h, other)

SpecSearch == InitQ /\ [][NextSearch]_vars

(***************************************************************************)
(* Trimming.  The specification of the trim functions starts from one      *)
(* handle that holds a string over the terminator, a whitespace character  *)
(* and characters that are not whitespace; a behaviour trims it, builds a  *)
(* handle from the view it got, and trims that handle the same way.        *)
(***************************************************************************)

\* The units of the trimmed strings: NUL, ' ' and the characters after it.
TrimChars == {NUL} \cup (32..(31 + QMaxChar))

\* std::isspace in the "C" locale: '\t' '\n' '\v' '\f' '\r' and ' '.
isspace(c) == c \in (9..13) \cup {32}

TrimOps == {"ltrim", "rtrim", "trim"}

InitT ==
    \E s \in SeqsOf(TrimChars, 0, QMaxLen) :
       /\ m_str = [h \in Handles |->
                     IF h = 1 THEN bound_block(s, 2) ELSE nullptr]
       /\ live = {1}
       /\ mem = [p \in {m_empty_str} \cup Blocks |->
                   IF p = m_empty_str THEN m_empty
                   ELSE IF p = 2 /\ s # <<>>
                   THEN new_block(get_allocated_length(Len(s)), s, Len(s))
                   ELSE FreeBlock]
       /\ fault = "none"
       /\ last = NoOp
       /\ owner = [h \in Handles |-> 0]
       /\ thr = [t \in Threads |-> Idle]

\* while (std::isspace(*ptr)) ptr++: the offset the scan stops at.
RECURSIVE skip_space(_, _)
skip_space(p, ptr) ==
    IF isspace(region(p)[ptr + 1]) THEN skip_space(p, ptr + 1) ELSE ptr

\* while (ptr >= lo && std::isspace(*ptr)) ptr--: the offset the scan
\* stops at, one before lo when it finds whitespace only.
RECURSIVE skip_space_back(_, _, _)
skip_space_back(p, ptr, lo) ==
    IF ptr >= lo /\ isspace(region(p)[ptr + 1])
    THEN skip_space_back(p, ptr - 1, lo) ELSE ptr

\* basic_cstring_view(ptr, len): len units from offset ptr of the block at p.
sv_at(p, ptr, len) ==
    [ptr |-> ptr, len |-> len,
     units |-> SubSeq(region(p), ptr + 1, ptr + len)]

\* basic_cstring_view(ptr): the units from offset ptr to the first NUL.
sv_cstr_at(p, ptr) ==
    sv_at(p, ptr,
          traits_length(SubSeq(region(p), ptr + 1, Len(region(p)))))

\* ltrim(): skip the leading whitespace, return the C string found there.
ltrim(h) == sv_cstr_at(m_str[h], skip_space(m_str[h], 0))

\* An rtrim that leaves out the ptr++ after its scan.
rtrim_end_short(ptr) == IF ptr < 0 THEN 0 ELSE ptr

\* ptr++ after the backward scan: one past the last unit that is kept.
rtrim_end(ptr) == ptr + 1

\* rtrim(): scan back from the last unit, return the units before the stop.
rtrim(h) ==
    sv_at(m_str[h], 0,
          rtrim_end(skip_space_back(m_str[h], length(h) - 1, 0)))

\* trim(): both scans, the backward one stopping at the forward one's end.
trim(h) ==
    LET ptr1 == skip_space(m_str[h], 0)
        ptr2 == skip_space_back(m_str[h], length(h) - 1, ptr1) + 1
    IN sv_at(m_str[h], ptr1, ptr2 - ptr1)

\* The name of the construction from the view that the trim name returned.
construct_from(name) ==
    CASE name = "ltrim" -> "construct_ltrim"
      [] name = "rtrim" -> "construct_rtrim"
      [] name = "trim"  -> "construct_trim"

\* The handle h may be trimmed with name: the handle of the initial state,
\* or the handle just built from the view the same function returned.
TReady(name, h) ==
    /\ fault = "none"
    /\ h \in live
    /\ \/ last.op = "init"
       \/ last.op = construct_from(name) /\ last.a = h

\* What a trim is applied to: the view an earlier trim returned, if any.
TArgs == [again |-> last.op # "init",
          first |-> IF last.op = "init" THEN <<>>
                    ELSE SubSeq(last.buf, 1, last.len)]

Ltrim(h) ==
    /\ TReady("ltrim", h)
    /\ last' = QOp("ltrim", h, TArgs, ltrim(h), FALSE)
    /\ Reads(FALSE)

Rtrim(h) ==
    /\ TReady("rtrim", h)
    /\ last' = QOp("rtrim", h, TArgs, rtrim(h), FALSE)
    /\ Reads(FALSE)

Trim(h) ==
    /\ TReady("trim", h)
    /\ last' = QOp("trim", h, TArgs, trim(h), FALSE)
    /\ Reads(FALSE)

\* basic_cstring(sv.data(), sv.length()) of the view a trim has returned.
ConstructTrimmed(h) ==
    /\ last.op \in TrimOps
    /\ ~last.args.again
    /\ LET p == m_str[last.a]
           sv == last.res
       IN basic_cstring(construct_from(last.op), h, FALSE,
                        SubSeq(region(p), sv.ptr + 1, Len(region(p))),
                        sv.len)

NextTrim ==
    \/ \E h \in Handles : Ltrim(h)
    \/ \E h \in Handles : Rtrim(h)
    \/ \E h \in Handles : Trim(h)
    \/ \E h \in Handles : ConstructTrimmed(h)

SpecTrim == InitT /\ [][NextTrim]_vars

(***************************************************************************)
(* Block sizes.  The specification of get_allocated_length computes, for   *)
(* every accepted length and every width of value_type, the size that the  *)
(* constructor allocates, and then the size that deallocate computes from  *)
(* the length stored in the block.                                         *)
(***************************************************************************)

\* sizeof(value_type) for char, char16_t and char32_t.
Widths == {1, 2, 4}

\* The record of a size computation: the width, the length asked for, the
\* length stored in the block, the units allocated and the units freed.
SizeOp(name, w, len, units, n) ==
    [op |-> name, a |-> 0, b |-> 0, w |-> w, len |-> len,
     stored |-> len % prefix_mod, units |-> units, n |-> n]

\* basic_cstring(str, len), 1 <= len <= max_size():
\* allocate(get_allocated_length(len)) and the store of len.
AllocateBlock(w, len) ==
    /\ fault = "none"
    /\ last.op = "init"
    /\ ~length_error(len)
    /\ last' = SizeOp("allocate", w, len, allocated_units(w, len), 0)
    /\ UNCHANGED <<m_str, live, mem, fault, owner, thr>>

\* deallocate(str): n = get_allocated_length(*get_ptr_to_length(str)).
DeallocateBlock ==
    /\ fault = "none"
    /\ last.op = "allocate"
    /\ last' = SizeOp("deallocate", last.w, last.len, last.units,
                      allocated_units(last.w, last.stored))
    /\ UNCHANGED <<m_str, live, mem, fault, owner, thr>>

NextAlloc ==
    \/ \E w \in Widths : \E len \in 1..(max_size + 1) : AllocateBlock(w, len)
    \/ DeallocateBlock

SpecAlloc == Init /\ [][NextAlloc]_vars

(***************************************************************************)
(* Counter range.  The specification of the counter's range starts from    *)
(* one handle bound to a block and has as many further handles as the      *)
(* counter has values; they are copy-constructed one after the other and   *)
(* destroyed in the reverse order.                                         *)
(***************************************************************************)

\* One handle more than prefix_type has values.
WrapHandles == 1..(prefix_mod + 1)

InitW ==
    /\ m_str = [h \in WrapHandles |-> IF h = 1 THEN 2 ELSE nullptr]
    /\ live = {1}
    /\ mem = [p \in {m_empty_str} \cup Blocks |->
                IF p = m_empty_str THEN m_empty
                ELSE IF p = 2
                THEN new_block(get_allocated_length(1), <<1>>, 1)
                ELSE FreeBlock]
    /\ fault = "none"
    /\ last = NoOp
    /\ owner = [h \in Handles |-> 0]
    /\ thr = [t \in Threads |-> Idle]

\* basic_cstring h(first): the next copy of the first handle.
CopyNext(h) ==
    /\ h - 1 \in live
    /\ CopyConstruct(h, 1)

\* The destructor of the handle constructed last.
DestroyLast(h) ==
    /\ h + 1 \notin live
    /\ Destroy(h)

NextWrap ==
    \/ \E h \in WrapHandles : CopyNext(h)
    \/ \E h \in WrapHandles : DestroyLast(h)

SpecWrap == InitW /\ [][NextWrap]_vars

(***************************************************************************)
(* Concurrent specification: threads copy and destroy their own handles;   *)
(* every atomic operation on the counter (load, fetch_add, fetch_sub) and  *)
(* the deallocation are separate steps that interleave freely.             *)
(***************************************************************************)

Apply(M) == mem' = M.mem /\ fault' = M.fault

\* Copy constructor, first half: m_str(other.m_str), then the load of
\* increment_ref_counter.
MTCopyLoad(t, h, other) ==
    /\ fault = "none"
    /\ thr[t].pc = "idle"
    /\ other \in live /\ owner[other] = t
    /\ h \notin live /\ owner[h] = 0
    /\ m_str' = [m_str EXCEPT ![h] = m_str[other]]
    /\ owner' = [owner EXCEPT ![h] = t]
    /\ IF ~IsValid(Machine, m_str[other])
       THEN /\ fault' = "use_after_free"
            /\ UNCHANGED <<mem, live, thr>>
       ELSE LET counts == load_counter(Machine, m_str[other]) IN
            /\ UNCHANGED <<mem, fault>>
            /\ IF counts > 0
               THEN /\ thr' = [thr EXCEPT ![t] =
                                 [pc |-> "inc_add", h |-> h, counts |-> counts]]
                    /\ UNCHANGED live
               ELSE /\ live' = live \cup {h}
                    /\ UNCHANGED thr
    /\ last' = Op("mt_copy_load", h, other)

\* increment_ref_counter, second half: fetch_add(1).
MTCopyAdd(t) ==
    /\ fault = "none"
    /\ thr[t].pc = "inc_add"
    /\ Apply(fetch_add(Machine, m_str[thr[t].h]))
    /\ live' = live \cup {thr[t].h}
    /\ thr' = [thr EXCEPT ![t] = Idle]
    /\ last' = Op("mt_copy_add", thr[t].h, 0)
    /\ UNCHANGED <<m_str, owner>>

\* The handle whose destructor has returned.
Destroyed(h) ==
    /\ m_str' = [m_str EXCEPT ![h] = nullptr]
    /\ owner' = [owner EXCEPT ![h] = 0]

\* Destructor: release, the load.
MTReleaseLoad(t, h) ==
    /\ fault = "none"
    /\ thr[t].pc = "idle"
    /\ h \in live /\ owner[h] = t
    /\ live' = live \ {h}
    /\ IF ~IsValid(Machine, m_str[h])
       THEN /\ fault' = "use_after_free"
            /\ UNCHANGED <<mem, m_str, owner, thr>>
       ELSE LET counts == load_counter(Machine, m_str[h]) IN
            /\ UNCHANGED <<mem, fault>>
            /\ IF counts = 0
               THEN Destroyed(h) /\ UNCHANGED thr
               ELSE /\ thr' = [thr EXCEPT ![t] =
                                 [pc |-> IF counts > 1 THEN "rel_sub"
                                                       ELSE "rel_dealloc",
                                  h |-> h, counts |-> counts]]
                    /\ UNCHANGED <<m_str, owner>>
    /\ last' = Op("mt_release_load", h, 0)

\* release: counts = fetch_sub(1), which returns the value it found.
MTReleaseSub(t) ==
    /\ fault = "none"
    /\ thr[t].pc = "rel_sub"
    /\ LET h     == thr[t].h
           M     == fetch_sub(Machine, m_str[h])
           found == IF IsValid(Machine, m_str[h])
                    THEN load_counter(Machine, m_str[h]) ELSE 0
           counts == release_counts(thr[t].counts, found)
       IN /\ Apply(M)
          /\ last' = Op("mt_release_sub", h, 0)
          /\ IF counts = 1 /\ M.fault = "none"
             THEN /\ thr' = [thr EXCEPT ![t] =
                               [pc |-> "rel_dealloc", h |-> h, counts |-> counts]]
                  /\ UNCHANGED <<m_str, owner>>
             ELSE /\ thr' = [thr EXCEPT ![t] = Idle]
                  /\ Destroyed(h)
    /\ UNCHANGED live

\* release: deallocate(str) by the thread that found the last reference.
MTReleaseDealloc(t) ==
    /\ fault = "none"
    /\ thr[t].pc = "rel_dealloc"
    /\ Apply(deallocate(Machine, m_str[thr[t].h]))
    /\ Destroyed(thr[t].h)
    /\ thr' = [thr EXCEPT ![t] = Idle]
    /\ last' = Op("mt_release_dealloc", thr[t].h, 0)
    /\ UNCHANGED live

\* One block shared by one handle per thread, as left by a thread that
\* constructed the string and handed a copy to every thread.
InitMT ==
    \E buf \in SeqsOf(Chars, 1, MaxLen) :
       /\ m_str = [h \in Handles |-> IF h \in Threads THEN 2 ELSE nullptr]
       /\ live = Threads
       /\ mem = [p \in {m_empty_str} \cup Blocks |->
                   IF p = m_empty_str THEN m_empty
                   ELSE IF p = 2
                        THEN [new_block(get_allocated_length(Len(buf)), buf,
                                        Len(buf))
                                EXCEPT !.counter = MaxThreads]
                        ELSE FreeBlock]
       /\ fault = "none"
       /\ last = NoOp
       /\ owner = [h \in Handles |-> IF h \in Threads THEN h ELSE 0]
       /\ thr = [t \in Threads |-> Idle]

NextMT ==
    \/ \E t \in Threads : \E h, other \in Handles : MTCopyLoad(t, h, other)
    \/ \E t \in Threads : MTCopyAdd(t)
    \/ \E t \in Threads : \E h \in Handles : MTReleaseLoad(t, h)
    \/ \E t \in Threads : MTReleaseSub(t)
    \/ \E t \in Threads : MTReleaseDealloc(t)

SpecMT == InitMT /\ [][NextMT]_vars

(***************************************************************************)
(* Properties                                                              *)
(***************************************************************************)

\* The live handles bound to the block at p.
BoundTo(p) == {h \in live : m_str[h] = p}

\* C1: in every state reached by constructing, copying, moving, assigning,
\* swapping and destroying handles, the counter of every allocated block is
\* the number of live handles bound to it, and the counter of the empty
\* singleton is 0.
C1_CounterIsHandleCount ==
    /\ \A p \in Blocks :
          IsAllocated(Machine, p) => mem[p].counter = Cardinality(BoundTo(p))
    /\ mem[m_empty_str].counter = 0

\* A block shared by two handles beside a handle on the empty singleton,
\* right after a copy assignment.
C1_Witness ==
    /\ last.op = "copy_assign"
    /\ \E p \in Blocks : IsAllocated(Machine, p) /\ Cardinality(BoundTo(p)) = 2
    /\ BoundTo(m_empty_str) # {}

\* C2: a heap block is deallocated exactly once, in the step that destroys
\* or rebinds the last handle bound to it: no handle is ever bound to a
\* freed block, no block stays allocated without a handle, nothing is freed
\* twice, and the empty singleton is never deallocated.
C2_Safe ==
    /\ fault = "none"
    /\ \A h \in live : IsValid(Machine, m_str[h])
    /\ \A p \in Blocks : IsAllocated(Machine, p) => BoundTo(p) # {}
    /\ mem[m_empty_str] = m_empty

C2_FreedWithLastHandle ==
    \A p \in Blocks :
       IsAllocated(Machine, p) =>
          (mem'[p].units = 0
             <=> /\ Cardinality(BoundTo(p)) = 1
                 /\ \A h \in BoundTo(p) : h \notin live' \/ m_str'[h] # p
                 /\ last'.op \in {"destroy", "copy_assign"})

C2_DeallocatedExactlyOnce == []C2_Safe /\ [][C2_FreedWithLastHandle]_vars

\* The last handle of a block has just been rebound by a copy assignment,
\* which freed the block, while another block is still in use.
C2_Witness ==
    /\ last.op = "copy_assign"
    /\ last.freed # {}
    /\ \E p \in Blocks : IsAllocated(Machine, p)
    /\ fault = "none"

\* The threads inside an increment or a release.
InFlight == {t \in Threads : thr[t].pc # "idle"}

\* C3: threads that copy and destroy their own handles of one shared block,
\* with release and increment split into their atomic steps: in every
\* interleaving the counter stays consistent with the handles (it equals the
\* number of bound handles whenever no operation is in flight, and differs
\* from it by at most the operations in flight), the block is freed once
\* (never twice, never touched after it is freed), it is freed only when no
\* handle is bound to it and no other thread is still working on it, and it
\* is freed by the time every handle is gone.
C3_Consistent ==
    /\ fault = "none"
    /\ \A p \in Blocks :
          IF IsAllocated(Machine, p)
          THEN /\ mem[p].counter >= Cardinality(BoundTo(p))
               /\ mem[p].counter <= Cardinality(BoundTo(p)) + Cardinality(InFlight)
               /\ InFlight = {} =>
                     /\ mem[p].counter = Cardinality(BoundTo(p))
                     /\ BoundTo(p) # {}
          ELSE \A h \in Handles : m_str[h] # p
    /\ \A t \in InFlight : IsAllocated(Machine, m_str[thr[t].h])

C3_FreedAfterAllReleased ==
    \A p \in Blocks :
       (IsAllocated(Machine, p) /\ mem'[p].units = 0) =>
          /\ BoundTo(p) = {}
          /\ Cardinality(InFlight) = 1
          /\ \A h \in Handles : m_str'[h] # p

C3_ConcurrentRefCount == []C3_Consistent /\ [][C3_FreedAfterAllReleased]_vars

\* Every handle is gone and the last release has just freed the block.
C3_Witness ==
    /\ last.op = "mt_release_dealloc"
    /\ last.freed = {2}
    /\ live = {}
    /\ InFlight = {}
    /\ fault = "none"

\* C4: constructing a handle from (s, n) with 1 <= n <= max_size(), NUL
\* units of s included, gives a handle of length n and counter 1 whose data
\* is the first n units of s followed by one NUL.
C4_ConstructRoundTrip ==
    (last.op = "construct_len" /\ ~last.null
        /\ last.len >= 1 /\ last.len <= max_size) =>
       /\ last.a \in live
       /\ m_str[last.a] \in Blocks
       /\ length(last.a) = last.len
       /\ use_count(last.a) = 1
       /\ c_str(last.a) = SubSeq(last.buf, 1, last.len) \o <<NUL>>
       /\ view(last.a) = SubSeq(last.buf, 1, last.len)
       /\ fault = "none"

\* Two units taken from a longer buffer that starts with a NUL and goes on
\* with another unit.
C4_Witness ==
    /\ last.op = "construct_len" /\ ~last.null
    /\ last.len = 2
    /\ Len(last.buf) = 3
    /\ last.buf[1] = NUL /\ last.buf[2] # NUL
    /\ last.a \in live

\* C5: a handle made by the default constructor, from a null or an empty
\* NUL-terminated buffer, from any buffer with explicit length 0, or by
\* copying or moving a handle bound to the empty singleton, is bound to the
\* empty singleton (the same pointer for all of them, length 0, counter 0),
\* and making it allocates nothing and changes no memory.
C5_MakesEmpty ==
    LET o == last' IN
    (\/ o.op = "construct_default"
     \/ o.op = "construct_cstr" /\ (o.null \/ o.buf[1] = NUL)
     \/ o.op = "construct_len" /\ ~o.threw /\ o.len = 0
     \/ o.op \in {"copy_construct", "move_construct"}
           /\ m_str[o.b] = m_empty_str) =>
       /\ o.a \in live'
       /\ m_str'[o.a] = m_empty_str
       /\ mem'[m_str'[o.a]].len = 0
       /\ mem'[m_str'[o.a]].counter = 0
       /\ \A g \in live : m_str[g] = m_empty_str => m_str'[g] = m_str'[o.a]
       /\ mem' = mem
       /\ o.alloc = {}
       /\ fault' = "none"

C5_EmptyIsSingleton == [][C5_MakesEmpty]_vars

\* A handle made from a non-empty buffer with length 0 while another handle
\* is already bound to the empty singleton and the heap is unused.
C5_Witness ==
    /\ last.op = "construct_len" /\ ~last.null /\ last.len = 0
    /\ Len(last.buf) > 0 /\ last.buf[1] # NUL
    /\ m_str[last.a] = m_empty_str
    /\ \E g \in live \ {last.a} : m_str[g] = m_str[last.a]
    /\ \A p \in Blocks : ~IsAllocated(Machine, p)

\* C6: the pointer of every live handle, moved-from, swapped and assigned-to
\* handles included, is not null and points at an allocated block or at the
\* empty singleton, and the unit at index length() of its data is NUL.
C6_PointerValid ==
    \A h \in live :
       /\ data(h) # nullptr
       /\ IsValid(Machine, data(h))
       /\ Len(c_str(h)) >= length(h) + 1
       /\ c_str(h)[length(h) + 1] = NUL

\* A move assignment has just handed a heap block to a handle and left the
\* other one with the empty singleton.
C6_Witness ==
    /\ last.op = "move_assign"
    /\ last.old = m_empty_str
    /\ m_str[last.a] \in Blocks
    /\ m_str[last.b] = m_empty_str
    /\ live = Handles

\* C7: a copy construction, or a copy assignment between handles bound to
\* different blocks, binds the destination to the source's block; that
\* block's counter grows by exactly one (stays 0 for the empty singleton)
\* and its content stays; the block the destination held before loses one
\* reference and is deallocated if that was its last; no other block
\* changes.  Destroying one of several handles of a block leaves the others
\* bound to the same, still allocated, unchanged content.
C7_CopyBinds ==
    LET o == last' IN
    (\/ o.op = "copy_construct"
     \/ o.op = "copy_assign" /\ m_str[o.a] # m_str[o.b]) =>
       LET src == m_str[o.b]
           old == m_str[o.a]
       IN /\ m_str' = [m_str EXCEPT ![o.a] = src]
          /\ live' = live \cup {o.a}
          /\ mem'[src].counter =
                IF src = m_empty_str THEN 0 ELSE mem[src].counter + 1
          /\ mem'[src] = [mem[src] EXCEPT !.counter = mem'[src].counter]
          /\ old \in Blocks =>
                IF mem[old].counter = 1
                THEN mem'[old].units = 0 /\ o.freed = {old}
                ELSE /\ mem'[old] = [mem[old] EXCEPT !.counter = @ - 1]
                     /\ o.freed = {}
          /\ \A p \in DOMAIN mem : p \notin {src, old} => mem'[p] = mem[p]
          /\ fault' = "none"

C7_DestroyKeepsOthers ==
    LET o == last' IN
    o.op = "destroy" =>
       \A g \in live \ {o.a} :
          m_str[g] = m_str[o.a] =>
             /\ g \in live'
             /\ m_str'[g] = m_str[g]
             /\ IsValid([mem |-> mem', fault |-> fault'], m_str'[g])
             /\ mem'[m_str'[g]].len = mem[m_str[g]].len
             /\ mem'[m_str'[g]].str = mem[m_str[g]].str
             /\ fault' = "none"

C7_CopyShares == [][C7_CopyBinds /\ C7_DestroyKeepsOthers]_vars

\* A copy assignment has just rebound the only handle of one heap block to
\* another heap block, which now has two handles.
C7_Witness ==
    /\ last.op = "copy_assign"
    /\ last.old \in Blocks
    /\ last.freed = {last.old}
    /\ m_str[last.a] \in Blocks
    /\ m_str[last.a] = m_str[last.b]
    /\ use_count(last.a) = 2

\* C8: copy-assigning a handle to itself, or to a handle bound to the same
\* block, changes nothing: no pointer, no counter, no content, no handle,
\* and nothing is released or deallocated.
C8_SameTargetNoOp ==
    LET o == last' IN
    (o.op = "copy_assign" /\ m_str[o.a] = m_str[o.b]) =>
       /\ UNCHANGED <<m_str, live, mem, fault>>
       /\ o.freed = {}
       /\ o.alloc = {}

C8_SelfAssign == [][C8_SameTargetNoOp]_vars

\* A handle has just been assigned from a different handle that was already
\* bound to the same heap block.
C8_Witness ==
    /\ last.op = "copy_assign"
    /\ last.a # last.b
    /\ last.old \in Blocks
    /\ last.old = m_str[last.b]
    /\ m_str[last.a] = last.old
    /\ use_count(last.a) = 2

\* C9: a move construction binds the new handle to the block of the source,
\* binds the source to the empty singleton and changes no counter and no
\* block; destroying a handle bound to the empty singleton, as the source
\* is afterwards, releases nothing.
C9_MoveTransfers ==
    LET o == last' IN
    /\ o.op = "move_construct" =>
          /\ m_str' = [m_str EXCEPT ![o.a] = m_str[o.b], ![o.b] = m_empty_str]
          /\ live' = live \cup {o.a}
          /\ o.b \in live'
          /\ mem' = mem
          /\ fault' = "none"
    /\ (o.op = "destroy" /\ m_str[o.a] = m_empty_str) =>
          /\ mem' = mem
          /\ o.freed = {}
          /\ fault' = "none"
    /\ (last.op = "move_construct" /\ o.op = "destroy" /\ o.a = last.b) =>
          mem' = mem /\ fault' = "none"

C9_MoveConstruct == [][C9_MoveTransfers]_vars

\* A move construction has just taken a heap block with one reference.
C9_Witness ==
    /\ last.op = "move_construct"
    /\ m_str[last.a] \in Blocks
    /\ use_count(last.a) = 1
    /\ m_str[last.b] = m_empty_str
    /\ last.b \in live

SwapOps == {"move_assign", "swap", "free_swap"}

\* C10: move assignment, member swap and free swap exchange the pointers of
\* the two handles, so each reads the other's former content; no block, no
\* counter and no other handle changes and nothing is deallocated; the same
\* exchange applied a second time restores both bindings.
C10_Exchanges ==
    LET o == last' IN
    o.op \in SwapOps =>
       /\ m_str'[o.a] = m_str[o.b]
       /\ m_str'[o.b] = m_str[o.a]
       /\ \A g \in Handles \ {o.a, o.b} : m_str'[g] = m_str[g]
       /\ mem'[m_str'[o.a]].str = c_str(o.b)
       /\ mem'[m_str'[o.b]].str = c_str(o.a)
       /\ mem'[m_str'[o.a]].len = length(o.b)
       /\ mem'[m_str'[o.b]].len = length(o.a)
       /\ UNCHANGED <<live, mem, fault>>
       /\ o.freed = {}
       /\ (last.op = o.op /\ last.a = o.a /\ last.b = o.b) =>
             m_str'[o.a] = last.old /\ m_str'[o.b] = m_str[o.a]

C10_Swap == [][C10_Exchanges]_vars

\* A swap has just exchanged two different heap blocks of different content.
C10_Witness ==
    /\ last.op = "swap"
    /\ last.a # last.b
    /\ m_str[last.a] \in Blocks /\ m_str[last.b] \in Blocks
    /\ m_str[last.a] # m_str[last.b]
    /\ last.old = m_str[last.b]
    /\ c_str(last.a) # c_str(last.b)

\* C11 as stated: after every move operation, move construction and move
\* assignment alike, the moved-from handle is a valid, readable handle bound
\* to the empty singleton (length 0, data() equal to the singleton's data).
C11_MovedFromIsEmpty ==
    MovedFrom # 0 =>
       /\ MovedFrom \in live
       /\ data(MovedFrom) = m_empty_str
       /\ length(MovedFrom) = 0

\* C11, amended: after every move the moved-from handle is a valid, readable
\* handle.  After a move construction it is bound to the empty singleton;
\* after a move assignment it is bound to the block the destination held
\* before, so it is empty exactly when the destination was empty.
C11_MovedFromState ==
    LET o == last' IN
    /\ o.op \in {"move_construct", "move_assign"} =>
          /\ o.b \in live'
          /\ IsValid([mem |-> mem', fault |-> "none"], m_str'[o.b])
          /\ mem'[m_str'[o.b]].str[mem'[m_str'[o.b]].len + 1] = NUL
          /\ mem' = mem
          /\ fault' = "none"
    /\ o.op = "move_construct" =>
          /\ m_str'[o.b] = m_empty_str
          /\ mem'[m_str'[o.b]].len = 0
    /\ o.op = "move_assign" =>
          /\ m_str'[o.b] = m_str[o.a]
          /\ mem'[m_str'[o.b]].str = c_str(o.a)
          /\ mem'[m_str'[o.b]].len = length(o.a)
          /\ (m_str'[o.b] = m_empty_str) <=> (length(o.a) = 0)

C11_MovedFromValid == [][C11_MovedFromState]_vars

\* A move assignment into a handle that held a string has just left that
\* string, not the empty one, in the moved-from handle.
C11_Witness ==
    /\ last.op = "move_assign"
    /\ last.a # last.b
    /\ last.old \in Blocks
    /\ data(last.b) = last.old
    /\ length(last.b) > 0

\* C12: a construction with an explicit length greater than max_size()
\* throws the length error before anything is allocated: no handle is
\* constructed, no block is allocated and nothing changes; a construction
\* with a length of at most max_size() does not throw, and the length it
\* stores in the block is the requested length, not a truncation of it.
C12_LengthChecked ==
    LET o == last' IN
    o.op = "construct_len" =>
       /\ o.threw <=> o.len > max_size
       /\ o.threw =>
             /\ UNCHANGED <<m_str, live, mem, fault>>
             /\ o.a \notin live'
             /\ o.alloc = {}
       /\ ~o.threw =>
             /\ o.a \in live'
             /\ fault' = "none"
             /\ mem'[m_str'[o.a]].len < prefix_mod
             /\ (~o.null) => mem'[m_str'[o.a]].len = o.len
             /\ (~o.null) => Len(mem'[m_str'[o.a]].str) >= o.len + 1

C12_LengthError == [][C12_LengthChecked]_vars

\* The longest accepted string has been constructed with its full length.
C12_StoredInFull ==
    /\ last.op = "construct_len"
    /\ ~last.null
    /\ last.len = max_size
    /\ last.a \in live
    /\ length(last.a) = max_size

\* A request one longer than max_size() has just been refused.
C12_Witness ==
    /\ last.op = "construct_len"
    /\ ~last.null
    /\ last.len = max_size + 1
    /\ last.threw
    /\ live = {}

\* C13 as stated: a construction from a null buffer produces the empty
\* binding for every value of the explicit length argument, and a
\* construction with length 0 produces the empty binding for every buffer.
C13_NullOrZeroIsEmpty ==
    (last.op = "construct_len" /\ (last.null \/ last.len = 0)) =>
       /\ ~last.threw
       /\ last.a \in live
       /\ data(last.a) = m_empty_str
       /\ length(last.a) = 0

\* C14: at(pos) and operator[](pos) return the character at pos when
\* pos < length() and the terminator when pos = length(); at(pos) throws
\* the out-of-range error when pos > length(), and the throwing call leaves
\* every handle's binding and every block, its counter included, unchanged.
C14_Indexing ==
    LET o == last'
        n == length(o.a)
    IN
    /\ (o.op \in {"at", "subscript"} /\ o.args.pos < n) =>
          /\ ~o.threw
          /\ o.res = view(o.a)[o.args.pos + 1]
          /\ UNCHANGED <<m_str, live, mem, fault>>
    /\ (o.op \in {"at", "subscript"} /\ o.args.pos = n) =>
          /\ ~o.threw
          /\ o.res = NUL
          /\ UNCHANGED <<m_str, live, mem, fault>>
    /\ (o.op = "at" /\ o.args.pos > n) =>
          /\ o.threw
          /\ UNCHANGED <<m_str, live, mem, fault>>

C14_IndexedAccess == [][C14_Indexing]_vars

\* at() has just been refused one position past the terminator of a string
\* that two handles share.
C14_Witness ==
    /\ last.op = "at"
    /\ last.threw
    /\ length(last.a) > 0
    /\ last.args.pos = length(last.a) + 1
    /\ use_count(last.a) = 2

\* C15 as stated: front() and back() throw exactly when the string is
\* empty, which includes every handle bound to the empty singleton and every
\* moved-from handle; otherwise they return the first and the last unit.
C15_EmptyOrMovedFromThrows ==
    last.op \in {"front", "back"} =>
       /\ last.threw <=> length(last.a) = 0
       /\ data(last.a) = m_empty_str => last.threw
       /\ last.moved => last.threw

\* C15, amended: front() and back() throw exactly when the string is empty,
\* which includes every handle bound to the empty singleton and so every
\* handle a move construction took from (the handle a move assignment took
\* from holds the destination's former string and throws only if that is
\* empty); otherwise front() returns the unit at index 0 and back() the
\* unit at index length()-1.
C15_FirstLast ==
    LET o == last'
        n == length(o.a)
    IN
    o.op \in {"front", "back"} =>
       /\ o.threw <=> n = 0
       /\ data(o.a) = m_empty_str => o.threw
       /\ (last.op = "move_construct" /\ o.moved) => o.threw
       /\ (last.op = "move_assign" /\ o.moved) =>
             (o.threw <=> mem[last.old].len = 0)
       /\ (~o.threw /\ o.op = "front") => o.res = view(o.a)[1]
       /\ (~o.threw /\ o.op = "back") => o.res = view(o.a)[n]
       /\ UNCHANGED <<m_str, live, mem, fault>>

C15_FrontBack == [][C15_FirstLast]_vars

\* back() has just returned the last unit of the string left in the handle
\* that a move assignment took from.
C15_Witness ==
    /\ last.op = "back"
    /\ last.moved
    /\ ~last.threw
    /\ length(last.a) > 1
    /\ last.res = view(last.a)[length(last.a)]
    /\ last.res # view(last.a)[1]

\* C16: substr(pos, len) of a string of length n throws the out-of-range
\* error when pos > n; when pos <= n it returns exactly the units at the
\* indices from pos up to, not including, min(pos+len, n), for every len up
\* to npos: substr(n) is empty and a len that reaches past the end gives the
\* whole remainder.
C16_Clamped ==
    LET o == last'
        n == length(o.a)
        pos == o.args.pos
        k == IF o.args.len >= n - pos THEN n - pos ELSE o.args.len
    IN
    o.op = "substr" =>
       /\ o.threw <=> pos > n
       /\ ~o.threw =>
             /\ Len(o.res) = k
             /\ \A i \in 1..k : o.res[i] = region(m_str[o.a])[pos + i]
             /\ pos = n => o.res = <<>>
             /\ (pos = 0 /\ o.args.len = npos) => o.res = view(o.a)
       /\ UNCHANGED <<m_str, live, mem, fault>>

C16_Substr == [][C16_Clamped]_vars

\* substr has just clamped a length of npos to the remainder of the string.
C16_Witness ==
    /\ last.op = "substr"
    /\ ~last.threw
    /\ last.args.pos = 1
    /\ last.args.len = npos
    /\ length(last.a) = QMaxLen
    /\ Len(last.res) = QMaxLen - 1

\* The comparison, prefix and suffix queries.
CompareOps == {"compare", "compare_pos", "compare_pos2", "compare_cstr",
               "compare_pos_cstr", "compare_pos_buf", "compare_view",
               "starts_with", "ends_with", "operator_eq"}

\* C17 as stated: given a valid handle, every compare overload, the
\* position+length overloads included, and every prefix and suffix test
\* completes for all argument values: it never throws and never ends the
\* program.
C17_CompareIsTotal ==
    last.op \in CompareOps => ~last.threw /\ ~last.abort

\* The units two handles hold are the same: same length, same unit at every
\* index.
SameUnits(a, b) ==
    /\ length(a) = length(b)
    /\ \A i \in 1..length(a) : region(m_str[a])[i] = region(m_str[b])[i]

\* C18: a == b holds exactly when a and b have the same length and the same
\* unit at every index, NUL units included, whether or not they are bound to
\* the same block; handles that are equal have equal hashes, and the hash
\* of a handle is the hash std::hash gives the string view of its units.
C18_EqualityAndHash ==
    /\ last.op = "operator_eq" =>
          /\ ~last.threw /\ ~last.abort
          /\ last.res <=> SameUnits(last.a, last.args.b)
    /\ \A a, b \in live :
          /\ operator_eq(a, b).res <=> SameUnits(a, b)
          /\ operator_eq(a, b).res => hash(a) = hash(b)
    /\ last.op = "hash" =>
          last.res = std_hash(view(last.a), length(last.a))

\* Two handles bound to different blocks that hold the same units, a NUL
\* among them, have just compared equal.
C18_Witness ==
    /\ last.op = "operator_eq"
    /\ last.res
    /\ data(last.a) # data(last.args.b)
    /\ length(last.a) = QArgLen
    /\ HasNUL(view(last.a))
    /\ view(last.a)[QArgLen] # NUL

\* x is a prefix / a suffix of v.
IsPrefix(x, v) == Len(x) <= Len(v) /\ SubSeq(v, 1, Len(x)) = x
IsSuffix(x, v) ==
    Len(x) <= Len(v) /\ SubSeq(v, Len(v) - Len(x) + 1, Len(v)) = x

\* The sequence an argument stands for: the units of a handle or of a view,
\* the units up to the first NUL of a buffer, nothing for the null pointer.
ArgUnits(args) ==
    IF args.form \in {"handle", "view"} THEN view(args.b)
    ELSE IF args.form = "cstr" THEN cstr_view(data(args.b))
    ELSE <<>>

\* C20 as stated: for an argument x given as a handle, a view or a
\* NUL-terminated buffer, starts_with(x) is true exactly when x's sequence
\* is a prefix of s and ends_with(x) exactly when it is a suffix of s; the
\* null buffer and the empty sequence are a prefix and a suffix of every
\* string; a longer argument gives false, never an error.
C20_PrefixSuffix ==
    /\ last.op \in {"starts_with", "ends_with"} =>
          /\ ~last.threw /\ ~last.abort
          /\ fault = "none"
    /\ last.op = "starts_with" =>
          (last.res <=> IsPrefix(ArgUnits(last.args), view(last.a)))
    /\ last.op = "ends_with" =>
          (last.res <=> IsSuffix(ArgUnits(last.args), view(last.a)))

SearchOps == {"find", "rfind", "find_first_of", "find_first_not_of",
              "find_last_of", "find_last_not_of"}

\* The pattern an argument of a search stands for: the units of a handle,
\* the len units of a buffer, the units up to the first NUL of a
\* NUL-terminated buffer, one character; the null pointer stands for the
\* empty string.
Needle(args) ==
    CASE args.form = "handle" -> view(args.b)
      [] args.form = "char"   -> <<args.c>>
      [] args.form = "buf"    ->
            IF args.str = nullptr THEN <<>>
            ELSE SubSeq(region(args.str), 1, args.len)
      [] args.form = "cstr"   ->
            IF args.str = nullptr THEN <<>> ELSE cstr_view(args.str)

\* Pattern x occurs at index i of v, as family fam understands it: the
\* units of x start at i, or the unit at i is (is not) one of x.
Occurs(fam, v, x, i) ==
    CASE fam \in {"find", "rfind"} ->
            i + Len(x) <= Len(v) /\ SubSeq(v, i + 1, i + Len(x)) = x
      [] fam \in {"find_first_of", "find_last_of"} ->
            i < Len(v) /\ v[i + 1] \in Range(x)
      [] fam \in {"find_first_not_of", "find_last_not_of"} ->
            i < Len(v) /\ v[i + 1] \notin Range(x)

Forward == {"find", "find_first_of", "find_first_not_of"}

\* The indices of v the search may answer: occurrences from pos on for the
\* forward families, up to pos for the backward ones.
Candidates(fam, v, x, pos) ==
    {i \in 0..Len(v) :
        /\ IF fam \in Forward THEN i >= pos ELSE i <= pos
        /\ Occurs(fam, v, x, i)}

\* C19 as stated: every search returns an index in [0, length()] at which
\* the searched pattern occurs within the allowed range of positions, the
\* least one from pos on for find (and the forward families), the greatest
\* one up to pos for the backward families, or npos when there is no such
\* occurrence; npos is no index of the string; a null needle is searched as
\* the empty string.
C19_SearchResult ==
    last.op \in SearchOps =>
       LET v == view(last.a)
           c == Candidates(last.op, v, Needle(last.args), last.args.pos)
       IN /\ ~last.threw /\ ~last.abort
          /\ npos > Len(v)
          /\ last.res = npos \/ last.res \in 0..Len(v)
          /\ c = {} => last.res = npos
          /\ c # {} =>
                /\ last.res \in c
                /\ \A i \in c : IF last.op \in Forward
                                THEN last.res <= i ELSE last.res >= i

(***************************************************************************)
(* Trimming (C21, C22).                                                    *)
(***************************************************************************)

\* The index of the first and of the last unit of s that is not whitespace:
\* one past the end, and zero, when there is none.
FirstNonSpace(s) ==
    IF \E i \in 1..Len(s) : ~isspace(s[i])
    THEN CHOOSE i \in 1..Len(s) :
            ~isspace(s[i]) /\ \A j \in 1..(i - 1) : isspace(s[j])
    ELSE Len(s) + 1

LastNonSpace(s) ==
    IF \E i \in 1..Len(s) : ~isspace(s[i])
    THEN CHOOSE i \in 1..Len(s) :
            ~isspace(s[i]) /\ \A j \in (i + 1)..Len(s) : isspace(s[j])
    ELSE 0

LeftTrimmed(s)  == SubSeq(s, FirstNonSpace(s), Len(s))
RightTrimmed(s) == SubSeq(s, 1, LastNonSpace(s))

\* C21: for a handle of any content, ltrim() is the view from the first
\* unit that is not whitespace to the end, rtrim() the view from the start
\* to the last unit that is not whitespace, trim() the view between the two
\* and equal to the left trim of rtrim(); a string of whitespace only, or an
\* empty one, gives an empty view.
C21_TrimViews ==
    last.op \in TrimOps =>
       LET s == view(last.a)
           v == last.res.units
       IN /\ last.op = "ltrim" => v = LeftTrimmed(s)
          /\ last.op = "rtrim" => v = RightTrimmed(s)
          /\ last.op = "trim" =>
                /\ v = SubSeq(s, FirstNonSpace(s), LastNonSpace(s))
                /\ v = LeftTrimmed(RightTrimmed(s))
          /\ (\A i \in 1..Len(s) : isspace(s[i])) => last.res.len = 0
          /\ Len(v) = last.res.len

\* C22: trimming is idempotent: the handle built from the view that ltrim,
\* rtrim or trim returned, trimmed again the same way, gives a view equal
\* to the one it was built from.
C22_TrimIdempotent ==
    (last.op \in TrimOps /\ last.args.again) =>
       /\ last.args.first = view(last.a)
       /\ last.res.units = last.args.first

\* The second trim of a string the first trim has shortened, but not to
\* nothing.
C22_Witness ==
    /\ last.op \in TrimOps
    /\ last.args.again
    /\ last.res.units # <<>>
    /\ Len(last.res.units) < length(1)

(***************************************************************************)
(* Immutable blocks (C23).                                                 *)
(***************************************************************************)

\* The operations that change a counter: the copies, and those that release.
CountingOps == {"copy_construct", "copy_assign", "destroy"}

\* C23: a step of any operation leaves the stored length and every unit of
\* the data, terminator included, of each block that stays allocated as they
\* were, and leaves the empty singleton alone; a counter changes only in a
\* copy construction, a copy assignment or a release by the destructor.
C23_BlockImmutable ==
    [][/\ mem'[m_empty_str] = mem[m_empty_str]
       /\ \A p \in Blocks :
             (mem[p].units > 0 /\ mem'[p].units > 0) =>
                /\ mem'[p].len = mem[p].len
                /\ mem'[p].str = mem[p].str
                /\ mem'[p].units = mem[p].units
                /\ mem'[p].counter # mem[p].counter =>
                      last'.op \in CountingOps]_vars

\* A copy assignment has released one full-length block, which lives on
\* with its content, and taken a reference to another.
C23_Witness ==
    /\ last.op = "copy_assign"
    /\ last.old \in Blocks
    /\ last.freed = {}
    /\ m_str[last.a] \in Blocks \ {last.old}
    /\ mem[last.old].counter = 1
    /\ mem[last.old].len = MaxLen
    /\ Len(mem[last.old].str) = MaxLen + 1

(***************************************************************************)
(* Explicit-length buffers (C24).                                          *)
(***************************************************************************)

\* The units of the handle basic_cstring(str, len) builds.
BuiltFrom(str, len) ==
    IF str = nullptr THEN <<>> ELSE SubSeq(region(str), 1, len)

\* C24: compare(pos, len, str, len2) with a buffer of len2 readable units,
\* and starts_with / ends_with of a view, work on exactly the units of the
\* buffer, NUL units at any index included: the result is the one the same
\* operation gives with a handle built from the buffer and its length.
C24_ExplicitLength ==
    /\ (/\ last.op = "compare_pos_buf"
        /\ last.args.str # nullptr
        /\ ~last.threw) =>
          /\ fault = "none"
          /\ last.res =
                sv_compare(sv_substr(view(last.a), last.args.pos,
                                     last.args.len),
                           BuiltFrom(last.args.str, last.args.len2))
    /\ (last.op = "starts_with" /\ last.args.form = "view") =>
          /\ fault = "none"
          /\ last.res = starts_with(last.a, last.args.b).res
    /\ (last.op = "ends_with" /\ last.args.form = "view") =>
          /\ fault = "none"
          /\ last.res = ends_with(last.a, last.args.b).res

(***************************************************************************)
(* Mixed comparisons (C25).                                                *)
(***************************************************************************)

\* The sequence of the other representation x: the units before the first
\* NUL of a buffer, nothing for the null buffer, every unit of a
\* std::string or a string view.
SequenceOf(args) ==
    CASE args.form = "cstr" -> cstr_view(data(args.b))
      [] args.form = "null" -> <<>>
      [] OTHER              -> view(args.b)

\* C25: a mixed relational operator, and the transparent comparator, give
\* for a handle a and another representation x what the comparison of
\* handles gives for a and the handle that holds x's sequence: a rel x is
\* a rel h, and x rel a is h rel a.
C25_MixedComparison ==
    last.op \in {"operator", "cstring_compare"} =>
       LET va == view(last.a)
           vx == SequenceOf(last.args)
       IN /\ ~last.threw /\ ~last.abort
          /\ fault = "none"
          /\ last.res =
                IF last.args.side = "lhs"
                THEN rel_zero(last.args.rel, sv_compare(va, vx))
                ELSE rel_zero(last.args.rel, sv_compare(vx, va))

(***************************************************************************)
(* Block sizes (C26).                                                      *)
(***************************************************************************)

\* The bytes a block of len units of w bytes needs: counter, length, the
\* units and the terminator.
BytesNeeded(w, len) == 2 * sizeof_prefix + (len + 1) * w

\* C26: for every length from 1 to max_size() and every width 1, 2 and 4,
\* the size get_allocated_length computes is 3 + floor(len * w / 4) units,
\* computed without overflow; its bytes hold counter, length, len units and
\* the terminator, and no smaller multiple of four bytes does; deallocate
\* frees the same number of units.
C26_BlockSize ==
    last.op \in {"allocate", "deallocate"} =>
       LET bytes == last.units * sizeof_prefix
       IN /\ last.len \in 1..max_size
          /\ last.len * last.w < size_mod
          /\ 3 + (last.len * last.w) \div sizeof_prefix < size_mod
          /\ last.units = 3 + (last.len * last.w) \div sizeof_prefix
          /\ bytes >= BytesNeeded(last.w, last.len)
          /\ bytes - sizeof_prefix < BytesNeeded(last.w, last.len)
          /\ last.op = "deallocate" => last.n = last.units

\* The longest string of two-byte units has been allocated and freed.
C26_Witness ==
    /\ last.op = "deallocate"
    /\ last.w = 2
    /\ last.len = max_size
    /\ last.n = 3 + max_size \div 2

(***************************************************************************)
(* Counter range (C27).                                                    *)
(***************************************************************************)

\* C27: with a counter that wraps modulo 2^w, the counter of an allocated
\* block is never 0 while a live handle is bound to it, however many copies
\* were made; the destructor of the last handle of a block deallocates it;
\* use_count() is 0 only for a handle bound to the empty singleton.
C27_CounterNeverZero ==
    /\ \A h \in live :
          m_str[h] \in Blocks =>
             /\ load_counter(Machine, m_str[h]) # 0
             /\ use_count(h) # 0
    /\ (/\ last.op = "destroy"
        /\ last.old \in Blocks
        /\ \A h \in live : m_str[h] # last.old) => last.old \in last.freed

(***************************************************************************)
(* Reads inside the data region (C28).                                     *)
(***************************************************************************)

\* C28: no query reads a unit outside the units of the block its pointer
\* refers to: compare(pos, len, str, len2) with a null or empty buffer,
\* which it replaces by the data of the empty singleton, compares no unit
\* after the singleton's two, whatever len2 is.  The units compared are
\* those up to the first difference among the first min(len, len2).
C28_ReadsInsideRegion ==
    /\ last.op # "init" => fault # "out_of_bounds_read"
    /\ (last.op = "compare_pos_buf" /\ ~last.threw) =>
          LET v == sv_substr(view(last.a), last.args.pos, last.args.len)
              w == region(sanitize(last.args.str))
              n == Min(Len(v), last.args.len2)
          IN ~(n > Len(w) /\ SubSeq(v, 1, Len(w)) = w)
====
